---------------------------- MODULE Spec2Model ----------------------------
(***************************************************************************)
(* Session keys for the TEN chain: the state store (core/state), the       *)
(* session-key lifecycle manager (core/sessionKey) and the transaction     *)
(* builder (core/transaction), modelled as one state machine.              *)
(*                                                                         *)
(* JavaScript runs every synchronous stretch of code to completion.  An    *)
(* action of this module is one such stretch: the start of an operation    *)
(* up to its first await, or the continuation of an operation after an     *)
(* awaited provider response.  The one stretch that is split is the        *)
(* notification loop of updateState: the merge and the persist happen in   *)
(* the action that calls updateState, each subscriber callback is a step   *)
(* of its own (the callback is code of the application and may call back   *)
(* into the library), and EndUpdate is the finally block.  While           *)
(* isUpdating is TRUE only these steps are enabled.                        *)
(***************************************************************************)
EXTENDS Integers, Sequences, FiniteSets, TLC

VARIABLES
    state,            \* the SessionKeyState record of core/state
    storage,          \* localStorage['ten-session-key-state']: <<>> or <<blob>>
    subscribers,      \* the subscriber Set, in insertion order
    isUpdating,       \* the update lock of core/state
    pending,          \* subscribers the running forEach has still to call
    waiters,          \* updateState calls sleeping on the 50 ms timer, oldest first
    providerCleanup,  \* the provider whose listeners providerCleanup removes, or NoProvider
    attached,         \* per provider: listener pairs of this library attached to it
    calls,            \* the operations started so far: position, provider, outcome
    lastWriter,       \* history: whose update was merged last (0: none or a provider event)
    batch,            \* history: the partial updates submitted to the bare store
    restarts,         \* history: number of process restarts
    notify,           \* history: the callbacks the running forEach has invoked
    persisted,        \* history: the values of the last write to storage, if kept
    copy,             \* a record the application got from getState and may change
    sent,             \* history: the payloads given to the session-execution call
    converted         \* history: the amounts taken through parseEther and formatEther

vars == <<state, storage, subscribers, isUpdating, pending, waiters,
          providerCleanup, attached, calls, lastWriter, batch, restarts, notify, persisted, copy, sent, converted>>

-----------------------------------------------------------------------------
(* Bounds of the model *)

MaxOps == 2
MaxRestarts == 1

-----------------------------------------------------------------------------
(* Strings are sequences of one-character strings, so that slicing and     *)
(* parsing are computed and not assumed.                                   *)

Rep(ch, n) == [i \in 1..n |-> ch]

HexPrefix == <<"0", "x">>

HexDigits == <<"0", "1", "2", "3", "4", "5", "6", "7", "8", "9",
               "a", "b", "c", "d", "e", "f">>

\* The value of one hexadecimal digit, -1 for any other character.
DigitValue(ch) ==
    IF \E i \in 1..16 : HexDigits[i] = ch
    THEN (CHOOSE i \in 1..16 : HexDigits[i] = ch) - 1
    ELSE -1

RECURSIVE ParseDigits(_, _, _)
ParseDigits(s, i, acc) ==
    IF i > Len(s) \/ DigitValue(s[i]) < 0
    THEN acc
    ELSE ParseDigits(s, i + 1, acc * 16 + DigitValue(s[i]))

NaN == -1

\* parseInt(s, 16): an optional 0x prefix, then the longest run of hex digits;
\* NaN when there is none (also for null, modelled as the empty string).
ParseInt16(s) ==
    LET body == IF Len(s) >= 2 /\ SubSeq(s, 1, 2) = HexPrefix
                THEN SubSeq(s, 3, Len(s)) ELSE s
    IN IF Len(body) = 0 \/ DigitValue(body[1]) < 0
       THEN NaN
       ELSE ParseDigits(body, 1, 0)

\* s.slice(-n): the last n characters, the whole string when it is shorter.
SliceLast(s, n) == IF Len(s) <= n THEN s ELSE SubSeq(s, Len(s) - n + 1, Len(s))

-----------------------------------------------------------------------------
(* Constants of utils/constants and of the provider's answers *)

TEN_CHAIN_ID == 443

AddressChars == 40
WordChars == 64

\* The canonical empty answer of eth_getStorageAt: 32 zero bytes.
EmptySentinel == HexPrefix \o Rep("0", WordChars)

\* null, undefined and '' all read as falsy by the code.
NullResponse == <<>>

WordA == HexPrefix \o Rep("0", WordChars - AddressChars) \o Rep("a", AddressChars)
WordB == HexPrefix \o Rep("1", WordChars - AddressChars) \o Rep("b", AddressChars)

StorageResponses == {NullResponse, EmptySentinel, WordA, WordB}

\* eth_chainId answers: 0x1bb is 443, 0x1 is Ethereum mainnet.
ChainIdResponses == {<<"0", "x", "1", "b", "b">>, <<"0", "x", "1">>}

Providers == {"p1", "p2"}
NoProvider == "none"

Subscribers == {"s1"}

-----------------------------------------------------------------------------
(* The state store: core/state *)

Fields == {"sessionKey", "isActive", "balance", "isLoading", "error"}

NoKey == <<>>          \* sessionKey: null
NoBalance == <<>>      \* balance: null
NoError == "null"      \* error: null
NoBlob == <<>>         \* nothing stored under the key

InitialState ==
    [sessionKey |-> NoKey, isActive |-> FALSE, balance |-> NoBalance,
     isLoading |-> FALSE, error |-> NoError]

\* JSON texts, as sequences of characters.
Quote == "\""
JsonLiteral ==
    [null |-> <<"n", "u", "l", "l">>, true |-> <<"t", "r", "u", "e">>,
     false |-> <<"f", "a", "l", "s", "e">>]
SessionKeyName == <<"s", "e", "s", "s", "i", "o", "n", "K", "e", "y">>
IsActiveName == <<"i", "s", "A", "c", "t", "i", "v", "e">>

JsonString(chars) == <<Quote>> \o chars \o <<Quote>>

\* JSON.stringify({sessionKey: st.sessionKey, isActive: st.isActive})
JsonStringify(st) ==
    <<"{">> \o JsonString(SessionKeyName) \o <<":">>
        \o (IF st.sessionKey = NoKey THEN JsonLiteral.null ELSE JsonString(st.sessionKey))
        \o <<",">> \o JsonString(IsActiveName) \o <<":">>
        \o (IF st.isActive THEN JsonLiteral.true ELSE JsonLiteral.false) \o <<"}">>

StartsWith(t, i, word) ==
    /\ i + Len(word) - 1 <= Len(t)
    /\ SubSeq(t, i, i + Len(word) - 1) = word

\* The position of the quote that closes the string opened at position i.
ClosingQuote(t, i) == CHOOSE j \in (i + 1)..Len(t) :
                          t[j] = Quote /\ \A k \in (i + 1)..(j - 1) : t[k] # Quote

\* The JSON value at position i of t, and the position after it.
JsonValue(t, i) ==
    IF t[i] = Quote
    THEN [val |-> SubSeq(t, i + 1, ClosingQuote(t, i) - 1), next |-> ClosingQuote(t, i) + 1]
    ELSE IF StartsWith(t, i, JsonLiteral.null) THEN [val |-> NoKey, next |-> i + 4]
    ELSE IF StartsWith(t, i, JsonLiteral.true) THEN [val |-> TRUE, next |-> i + 4]
    ELSE [val |-> FALSE, next |-> i + 5]

\* The members of the object whose first member name starts at position i.
RECURSIVE JsonMembers(_, _, _)
JsonMembers(t, i, acc) ==
    IF i > Len(t) \/ t[i] # Quote
    THEN acc
    ELSE LET name == JsonValue(t, i)
             value == JsonValue(t, name.next + 1)
         IN JsonMembers(t, value.next + 1, acc \cup {<<name.val, value.val>>})

\* parsed.<name> of JSON.parse(t)
JsonMember(t, name) ==
    (CHOOSE m \in JsonMembers(t, 2, {}) : m[1] = name)[2]

\* A load that restores the session key and leaves isActive at its default.
LoadStateKeyOnly(sto) ==
    IF sto # NoBlob
    THEN [InitialState EXCEPT !.sessionKey = JsonMember(sto[1], SessionKeyName)]
    ELSE InitialState

\* The record a process starts with: the defaults, with sessionKey and
\* isActive taken from the persisted blob when there is one.
LoadState(sto) ==
    IF sto # NoBlob
    THEN [InitialState EXCEPT !.sessionKey = JsonMember(sto[1], SessionKeyName),
                              !.isActive = JsonMember(sto[1], IsActiveName)]
    ELSE InitialState

\* A merge that starts from the defaults instead of the current record.
MergeFromDefaults(st, updates) ==
    [f \in Fields |-> IF f \in DOMAIN updates THEN updates[f] ELSE InitialState[f]]

\* state = { ...state, ...updates }
MergeState(st, updates) ==
    [f \in Fields |-> IF f \in DOMAIN updates THEN updates[f] ELSE st[f]]

\* A rewrite of the persisted subset for updates that name sessionKey only.
PersistStateKeyOnly(sto, st, updates) ==
    IF "sessionKey" \in DOMAIN updates THEN <<JsonStringify(st)>> ELSE sto

\* The persisted subset is rewritten when the update names sessionKey or isActive.
PersistState(sto, st, updates) ==
    IF "sessionKey" \in DOMAIN updates \/ "isActive" \in DOMAIN updates
    THEN <<JsonStringify(st)>>
    ELSE sto

\* What the storage holds after an update, as values: those of this update's
\* write, nothing after a removal, else what it held.
PersistedValues(sto, st, updates, written) ==
    IF written /\ ("sessionKey" \in DOMAIN updates \/ "isActive" \in DOMAIN updates)
    THEN <<[sessionKey |-> st.sessionKey, isActive |-> st.isActive]>>
    ELSE IF sto = NoBlob THEN NoBlob ELSE persisted

\* localStorage.removeItem
ClearPersisted(sto) == NoBlob

\* The fields of the record that hold an object when they are not null.
ObjectFields == {"balance", "error"}

IsNull(f, v) == IF f = "error" THEN v = NoError ELSE v = <<>>

\* The application holds no record of getState.  Of one it holds: the
\* values of its fields, and the fields whose object is the very object the
\* store's record refers to.
NoCopy == [held |-> FALSE, rec |-> InitialState, shared |-> {}]

\* getState(): { ...state }, a new record whose fields are those of state, so
\* an object a field refers to is shared with the store.
ShallowCopy(st) ==
    [held |-> TRUE, rec |-> st,
     shared |-> {f \in ObjectFields : ~IsNull(f, st[f])}]

\* No forEach is running.
NoNotification ==
    [registered |-> <<>>, invoked |-> <<>>, dropped |-> {}, rejected |-> FALSE]

\* The forEach of a merge starts: the subscribers registered at the merge.
Notifying(subs) == [NoNotification EXCEPT !.registered = subs]

\* callback(getState()): the callback whose turn it is gets a copy of the
\* record, and returns or throws.
Invoked(threw) ==
    [notify EXCEPT !.invoked =
        Append(@, [sub |-> Head(pending), seen |-> state, threw |-> threw])]

\* The lock is free: the call merges, writes the persisted subset (the write
\* succeeds, or throws and is logged) and starts the notification loop.
MergeNow(updates, owner, sto, written) ==
    /\ state' = MergeState(state, updates)
    /\ storage' = IF written
                  THEN PersistState(sto, MergeState(state, updates), updates)
                  ELSE sto
    /\ isUpdating' = TRUE
    /\ pending' = subscribers
    /\ lastWriter' = owner
    /\ notify' = Notifying(subscribers)
    /\ persisted' = PersistedValues(sto, MergeState(state, updates), updates, written)
    /\ copy' = [copy EXCEPT !.shared = @ \ DOMAIN updates]
    /\ UNCHANGED <<sent, converted>>

\* An updateState without the wait loop: a call made inside the notification
\* loop merges at once, under the callbacks still to be invoked.
UpdateStateUnlocked(updates, owner, sto, written) ==
    IF isUpdating
    THEN /\ state' = MergeState(state, updates)
         /\ pending' = Tail(pending)
         /\ storage' = sto
         /\ notify' = Invoked(FALSE)
         /\ persisted' = PersistedValues(sto, state, <<>>, FALSE)
         /\ UNCHANGED <<waiters, isUpdating, lastWriter, copy, sent, converted>>
    ELSE /\ MergeNow(updates, owner, sto, written)
         /\ UNCHANGED waiters

\* updateState(updates), called by `owner` (an operation, 0 for a provider
\* event) with `sto` the storage content at the time of the call.  With the
\* lock free the call merges, persists and starts the notification loop at
\* once.  With the lock held the caller is the subscriber being notified (no
\* other code runs inside the loop): the call goes to sleep on its 50 ms timer
\* and the callback returns.
UpdateStateWith(updates, owner, sto, written) ==
    IF isUpdating
    THEN /\ waiters' = Append(waiters, [updates |-> updates, owner |-> owner])
         /\ pending' = Tail(pending)
         /\ storage' = sto
         /\ notify' = Invoked(FALSE)
         /\ persisted' = PersistedValues(sto, state, <<>>, FALSE)
         /\ UNCHANGED <<state, isUpdating, lastWriter, copy, sent, converted>>
    ELSE /\ MergeNow(updates, owner, sto, written)
         /\ UNCHANGED waiters

\* updateState with a storage that takes the write.
UpdateState(updates, owner, sto) == UpdateStateWith(updates, owner, sto, TRUE)

\* A subscriber callback that only reads the copy it is given.
SubscriberObserves ==
    /\ isUpdating
    /\ pending # <<>>
    /\ pending' = Tail(pending)
    /\ notify' = Invoked(FALSE)
    /\ UNCHANGED <<state, storage, subscribers, isUpdating, waiters,
                   providerCleanup, attached, calls, lastWriter, batch, restarts, persisted, copy, sent, converted>>

\* A throw that leaves the forEach: the remaining callbacks are not called
\* and the promise of updateState rejects.
SubscriberThrowsAborts ==
    /\ isUpdating
    /\ pending # <<>>
    /\ pending' = <<>>
    /\ notify' = [Invoked(TRUE) EXCEPT !.rejected = TRUE]
    /\ UNCHANGED <<state, storage, subscribers, isUpdating, waiters,
                   providerCleanup, attached, calls, lastWriter, batch, restarts, persisted, copy, sent, converted>>

\* A subscriber callback throws: the catch around the callback logs it and
\* the forEach goes on.
SubscriberThrows ==
    /\ isUpdating
    /\ pending # <<>>
    /\ pending' = Tail(pending)
    /\ notify' = Invoked(TRUE)
    /\ UNCHANGED <<state, storage, subscribers, isUpdating, waiters,
                   providerCleanup, attached, calls, lastWriter, batch, restarts, persisted, copy, sent, converted>>

\* The finally block of updateState.
EndUpdate ==
    /\ isUpdating
    /\ pending = <<>>
    /\ isUpdating' = FALSE
    /\ notify' = NoNotification
    /\ UNCHANGED <<state, storage, subscribers, pending, waiters,
                   providerCleanup, attached, calls, lastWriter, batch, restarts, persisted, copy, sent, converted>>

\* The 50 ms timer of the oldest sleeping call fires (timers of equal delay
\* fire in the order they were set).  No timer fires inside a synchronous
\* stretch, so the call finds the lock free and goes on.
WakeWith(written) ==
    /\ MergeNow(Head(waiters).updates, Head(waiters).owner, storage, written)
    /\ waiters' = Tail(waiters)
    /\ UNCHANGED <<subscribers, providerCleanup, attached, calls, batch, restarts>>

WakeWaiter ==
    /\ ~isUpdating
    /\ waiters # <<>>
    /\ WakeWith(TRUE)

\* The sleeping call wakes and its write of the persisted subset throws.
WakeWaiterWriteFails ==
    /\ ~isUpdating
    /\ waiters # <<>>
    /\ WakeWith(FALSE)

RemoveSubscriber(seq, s) == SelectSeq(seq, LAMBDA x : x # s)

\* subscribeToState(callback)
Subscribe(s) ==
    /\ ~isUpdating
    /\ \A i \in 1..Len(subscribers) : subscribers[i] # s
    /\ subscribers' = Append(subscribers, s)
    /\ UNCHANGED <<state, storage, isUpdating, pending, waiters,
                   providerCleanup, attached, calls, lastWriter, batch, restarts, notify, persisted, copy, sent, converted>>

\* The unsubscribe capability subscribeToState returned.
Unsubscribe(s) ==
    /\ ~isUpdating
    /\ \E i \in 1..Len(subscribers) : subscribers[i] = s
    /\ subscribers' = RemoveSubscriber(subscribers, s)
    /\ UNCHANGED <<state, storage, isUpdating, pending, waiters,
                   providerCleanup, attached, calls, lastWriter, batch, restarts, notify, persisted, copy, sent, converted>>

\* A subscriber callback registers another callback: Set.forEach visits the
\* entries added while it runs.
SubscriberSubscribes(s) ==
    /\ isUpdating
    /\ pending # <<>>
    /\ \A i \in 1..Len(subscribers) : subscribers[i] # s
    /\ subscribers' = Append(subscribers, s)
    /\ pending' = Append(Tail(pending), s)
    /\ notify' = Invoked(FALSE)
    /\ UNCHANGED <<state, storage, isUpdating, waiters,
                   providerCleanup, attached, calls, lastWriter, batch, restarts, persisted, copy, sent, converted>>

\* An unsubscribe inside a callback when the forEach runs over a copy of the
\* Set taken at the merge: the deleted callback is still invoked.
SubscriberUnsubscribesSnapshot(s) ==
    /\ isUpdating
    /\ pending # <<>>
    /\ \E i \in 1..Len(subscribers) : subscribers[i] = s
    /\ subscribers' = RemoveSubscriber(subscribers, s)
    /\ pending' = Tail(pending)
    /\ notify' = [Invoked(FALSE) EXCEPT !.dropped = @ \cup {s}]
    /\ UNCHANGED <<state, storage, isUpdating, waiters,
                   providerCleanup, attached, calls, lastWriter, batch, restarts, persisted, copy, sent, converted>>

\* A subscriber callback invokes an unsubscribe capability (its own or
\* another's): Set.forEach does not visit an entry deleted before its turn.
SubscriberUnsubscribes(s) ==
    /\ isUpdating
    /\ pending # <<>>
    /\ \E i \in 1..Len(subscribers) : subscribers[i] = s
    /\ subscribers' = RemoveSubscriber(subscribers, s)
    /\ pending' = RemoveSubscriber(Tail(pending), s)
    /\ notify' = [Invoked(FALSE) EXCEPT !.dropped = @ \cup {s}]
    /\ UNCHANGED <<state, storage, isUpdating, waiters,
                   providerCleanup, attached, calls, lastWriter, batch, restarts, persisted, copy, sent, converted>>

\* A subscriber callback invokes its own unsubscribe capability and
\* subscribes itself again: subscribers.delete(cb) then subscribers.add(cb).
\* The entry moves to the end of the Set and Set.forEach visits it again.
\* (The history keeps the first invocation of a callback in a round.)
SubscriberResubscribes ==
    /\ isUpdating
    /\ pending # <<>>
    /\ subscribers' = Append(RemoveSubscriber(subscribers, Head(pending)), Head(pending))
    /\ pending' = Append(RemoveSubscriber(Tail(pending), Head(pending)), Head(pending))
    /\ notify' = IF \E i \in 1..Len(notify.invoked) : notify.invoked[i].sub = Head(pending)
                 THEN notify ELSE Invoked(FALSE)
    /\ UNCHANGED <<state, storage, isUpdating, waiters,
                   providerCleanup, attached, calls, lastWriter, batch, restarts, persisted, copy, sent, converted>>

-----------------------------------------------------------------------------
(* The operations: core/sessionKey and core/transaction *)

Ops == {"create", "fund", "activate", "deactivate", "delete", "cleanup", "send"}

CallIds == 1..MaxOps

\* The optional parameters of a sendTransaction call (TransactionParams): one
\* the caller left out is <<>>, a number n is <<n>>, a fee is its text.
NoTx ==
    [nonce |-> <<>>, maxFeePerGas |-> <<>>, maxPriorityFeePerGas |-> <<>>,
     gasLimit |-> <<>>]
AllTx ==
    [nonce |-> <<0>>, maxFeePerGas |-> <<"0", "x", "2">>,
     maxPriorityFeePerGas |-> <<"0", "x", "1">>, gasLimit |-> <<21000>>]
TxShapes == {NoTx, AllTx}

\* The tests of sendTransaction on them: txParams.nonce !== undefined,
\* txParams.maxFeePerGas && txParams.maxPriorityFeePerGas (the empty text is
\* falsy like undefined), and if (txParams.gasLimit) (0 is falsy).
NonceGiven(tx) == tx.nonce # <<>>
FeesGiven(tx) == tx.maxFeePerGas # <<>> /\ tx.maxPriorityFeePerGas # <<>>
GasLimitGiven(tx) == tx.gasLimit # <<>> /\ tx.gasLimit[1] # 0

\* Where the fee fields of a sendTransaction come from: not yet resolved, the
\* caller's parameters, the fee history, or the fixed fallback values.
FeeSources == {"unset", "caller", "history", "fallback"}

IdleCall ==
    [op |-> "none", pc |-> "idle", tx |-> NoTx, issued |-> {}, err |-> NoError,
     ret |-> <<>>, fees |-> "unset"]

\* A call whose caller has taken its result.
ObservedCall == [IdleCall EXCEPT !.pc = "observed"]

\* The requests that use eth_getStorageAt at a well-known address.
Actuations == {"create", "retrieve", "activate", "deactivate", "delete", "execute"}

\* Positions at which an operation awaits an answer of the provider.
AwaitingPcs == {"chain", "create", "retrieve", "sendTx", "receipt", "actuate",
                "deact", "del", "chain2", "nonce", "fees", "gas", "exec"}

InFlight(c) == calls[c].pc \notin {"idle", "observed", "returned", "failed"}

\* The messages of the errors the operations raise.
WrongNetwork == "Session Keys is only for TEN chain, please add or switch to TEN."
NoSessionKey == "No active session key. Create and activate a session key first."
CreationFailed ==
    "Failed to create session key - both creation and retrieval returned empty response"
ProviderError == "provider error"

\* What the provider rejects a request with: an Error, or a value that is none.
Rejections == {"Error", "NonError"}

\* error instanceof Error ? error : new Error(<the operation's message>)
NormalizeError(op, rej) ==
    IF rej = "Error" THEN ProviderError
    ELSE CASE op = "create" -> "Unknown error"
           [] op = "fund" -> "Unknown error"
           [] op = "activate" -> "Activation failed"
           [] op = "deactivate" -> "Deactivation failed"
           [] op = "delete" -> "Deletion failed"
           [] op = "cleanup" -> "Cleanup failed"
           [] op = "send" -> "Transaction failed"

\* The first synchronous update of every operation.
EntryUpdates == [isLoading |-> TRUE, error |-> NoError]

\* A catch block that also marks the session inactive.
ErrorUpdatesDeactivating(err) ==
    [error |-> err, isLoading |-> FALSE, isActive |-> FALSE]

\* The update of every catch block.
ErrorUpdates(err) == [error |-> err, isLoading |-> FALSE]

\* The reset deleteSessionKey and cleanupSessionKey end with.
ResetUpdates ==
    [sessionKey |-> NoKey, isActive |-> FALSE, balance |-> NoBalance,
     isLoading |-> FALSE]

\* providerCleanup(): the pair attached by the last setupProviderListeners.
DetachListeners(att, cleanup) ==
    IF cleanup = NoProvider THEN att
    ELSE [att EXCEPT ![cleanup] = IF @ > 0 THEN @ - 1 ELSE 0]

\* A setup that attaches the new pair and leaves the previous one attached.
SetupProviderListenersKeeps(p) ==
    /\ attached' = [attached EXCEPT ![p] = @ + 1]
    /\ providerCleanup' = p

\* setupProviderListeners(provider)
SetupProviderListeners(p) ==
    /\ attached' = [DetachListeners(attached, providerCleanup) EXCEPT ![p] = @ + 1]
    /\ providerCleanup' = p

\* A network check that throws for an unparsable chain id only.
CheckTenNetworkLax(chainId) == ParseInt16(chainId) # NaN

\* checkTenNetwork: parseInt(chainId, 16) === TEN_CHAIN_ID
CheckTenNetwork(chainId) == ParseInt16(chainId) = TEN_CHAIN_ID

\* sendTransaction: if (!sessionKeyAddress) throw
HasSessionKey(st) == st.sessionKey # NoKey

\* An emptiness test that knows the missing answer only: !response
IsEmptyResponseMissingOnly(r) == r = NullResponse

\* The empty answer: !response || response === '0x000...0'
IsEmptyResponse(r) == r = NullResponse \/ r = EmptySentinel

\* An extraction that takes the first 40 hex characters: response.slice(2, 42).
ExtractAddressHead(r) == HexPrefix \o SubSeq(r, 3, AddressChars + 2)

\* '0x' + response.slice(-40)
ExtractAddress(r) == HexPrefix \o SliceLast(r, AddressChars)

\* The lowest call slot not yet used.
FreeCall(c) ==
    /\ calls[c].pc = "idle"
    /\ \A d \in CallIds : d < c => calls[d].pc # "idle"

\* The synchronous start of an operation on provider p, up to its first await
\* (the chain id request of checkTenNetwork).  The provider's answers are
\* chosen when they arrive, so the call keeps no record of p.
BeginOp(c, op, p, tx) ==
    /\ FreeCall(c)
    /\ calls' = [calls EXCEPT ![c] =
                   [op |-> op, pc |-> "chain", tx |-> tx,
                    issued |-> {"eth_chainId"}, err |-> NoError, ret |-> <<>>,
                    fees |-> "unset"]]
    /\ UpdateState(EntryUpdates, c, storage)
    /\ IF op = "create"
       THEN SetupProviderListeners(p)
       ELSE UNCHANGED <<providerCleanup, attached>>
    /\ UNCHANGED <<subscribers, batch, restarts>>

\* The application calls a public operation.
StartOp(c, op, p, tx) ==
    /\ ~isUpdating
    /\ BeginOp(c, op, p, tx)

\* A subscriber callback calls a public operation.
SubscriberStartsOp(c, op, p, tx) ==
    /\ isUpdating
    /\ pending # <<>>
    /\ BeginOp(c, op, p, tx)

\* The operation raises err: the update of the catch block, and the rethrow.
Fail(c, err) ==
    /\ calls' = [calls EXCEPT ![c].pc = "failed", ![c].err = err]
    /\ UpdateState(ErrorUpdates(err), c, storage)
    /\ UNCHANGED <<subscribers, providerCleanup, attached, batch, restarts>>

\* The operation sends its next request and awaits the answer.
Issue(c, request, pc) ==
    /\ calls' = [calls EXCEPT ![c].pc = pc, ![c].issued = @ \cup {request}]
    /\ UNCHANGED <<state, storage, subscribers, isUpdating, pending, waiters,
                   providerCleanup, attached, lastWriter, batch, restarts, notify, persisted, copy, sent, converted>>

\* The operation's last update and its return.
Return(c, updates, ret) ==
    /\ calls' = [calls EXCEPT ![c].pc = "returned", ![c].ret = ret]
    /\ UpdateState(updates, c, storage)
    /\ UNCHANGED <<subscribers, providerCleanup, attached, batch, restarts>>

\* A catch block that lets cleanupSessionKey go on to the deletion call when
\* its deactivation call fails.
CatchDeactivationIgnored(c, rej) ==
    IF calls[c].op = "cleanup" /\ calls[c].pc = "deact"
    THEN Issue(c, "delete", "del")
    ELSE Fail(c, NormalizeError(calls[c].op, rej))

\* The catch block of every operation, entered with what the provider
\* rejected the awaited request with.
Catch(c, rej) == Fail(c, NormalizeError(calls[c].op, rej))

\* The provider rejects the request the operation awaits.
RequestRejected(c, rej) ==
    /\ ~isUpdating
    /\ calls[c].pc \in AwaitingPcs
    /\ Catch(c, rej)

\* The request an operation sends once the network check has passed.
FirstRequest(op) ==
    CASE op = "create" -> <<"create", "create">>
      [] op = "fund" -> <<"eth_sendTransaction", "sendTx">>
      [] op = "activate" -> <<"activate", "actuate">>
      [] op = "deactivate" -> <<"deactivate", "actuate">>
      [] op = "delete" -> <<"delete", "actuate">>
      [] op = "cleanup" -> <<"deactivate", "deact">>
      [] op = "send" -> <<"eth_chainId", "chain2">>

\* checkTenNetwork gets its answer.
ChainIdResponse(c, chainId) ==
    /\ ~isUpdating
    /\ calls[c].pc = "chain"
    /\ IF ~CheckTenNetwork(chainId)
       THEN Fail(c, WrongNetwork)
       ELSE IF calls[c].op = "send" /\ ~HasSessionKey(state)
       THEN Fail(c, NoSessionKey)
       ELSE Issue(c, FirstRequest(calls[c].op)[1], FirstRequest(calls[c].op)[2])

\* createSessionKey: the answer of the creation call.
CreateResponse(c, r) ==
    /\ ~isUpdating
    /\ calls[c].pc = "create"
    /\ IF IsEmptyResponse(r)
       THEN Issue(c, "retrieve", "retrieve")
       ELSE Return(c, [sessionKey |-> ExtractAddress(r), isLoading |-> FALSE],
                   ExtractAddress(r))

\* createSessionKey: the answer of the retrieval call.
RetrieveResponse(c, r) ==
    /\ ~isUpdating
    /\ calls[c].pc = "retrieve"
    /\ IF ~IsEmptyResponse(r)
       THEN Return(c, [sessionKey |-> ExtractAddress(r), isLoading |-> FALSE],
                   ExtractAddress(r))
       ELSE Fail(c, CreationFailed)

\* The session-key gateway behind the provider, for createSessionKey calls
\* that follow one another: it holds at most one key, creates one when it
\* holds none, answers a creation request with the empty sentinel once it
\* holds one, and answers a retrieval request with a 32-byte word that ends
\* in the key it holds.  WordA2 carries the key of WordA behind other bytes.
WordA2 == HexPrefix \o Rep("1", WordChars - AddressChars) \o Rep("a", AddressChars)

GatewayWords == {WordA, WordA2, WordB}

\* The createSessionKey calls that returned an address, the first of them.
FirstCreated ==
    {c \in CallIds :
        /\ calls[c].op = "create" /\ calls[c].pc = "returned"
        /\ \A d \in CallIds :
              d < c => ~(calls[d].op = "create" /\ calls[d].pc = "returned")}

\* The key the gateway is known to hold: the one the first successful
\* createSessionKey was given (NoKey: it may hold none, or one from before).
GatewayKey ==
    IF FirstCreated = {} THEN NoKey ELSE calls[CHOOSE c \in FirstCreated : TRUE].ret

\* What such a gateway answers to the creation request.
GatewayCreateAnswers ==
    IF GatewayKey = NoKey THEN GatewayWords \cup {EmptySentinel} ELSE {EmptySentinel}

\* What it answers to the retrieval request (made after an empty creation
\* answer, so it holds a key).
GatewayRetrieveAnswers ==
    {w \in GatewayWords :
        GatewayKey = NoKey \/ SubSeq(w, Len(w) - AddressChars + 1, Len(w))
                                = SubSeq(GatewayKey, 3, Len(GatewayKey))}

\* The application calls createSessionKey when no operation is running.
StartCreate(c, p) ==
    /\ \A d \in CallIds : ~InFlight(d)
    /\ StartOp(c, "create", p, NoTx)

\* The gateway answers the creation request of createSessionKey.
GatewayCreateResponse(c) ==
    /\ calls[c].op = "create"
    /\ \E r \in GatewayCreateAnswers : CreateResponse(c, r)

\* The gateway answers the retrieval request of createSessionKey.
GatewayRetrieveResponse(c) ==
    /\ calls[c].op = "create"
    /\ \E r \in GatewayRetrieveAnswers : RetrieveResponse(c, r)

\* The last update of activateSessionKey (TRUE) and deactivateSessionKey.
ActivationUpdates(active) == [isActive |-> active, isLoading |-> FALSE]

\* activateSessionKey, deactivateSessionKey: the actuation call has answered.
ActivationResponse(c) ==
    /\ ~isUpdating
    /\ calls[c].pc = "actuate"
    /\ calls[c].op \in {"activate", "deactivate"}
    /\ Return(c, ActivationUpdates(calls[c].op = "activate"), <<>>)

\* What an operation can change besides the calls: the record, the stored
\* blob and the provider listeners.
Store ==
    [state |-> state, storage |-> storage, attached |-> attached,
     providerCleanup |-> providerCleanup]

\* deleteSessionKey after its actuation call: clearPersistedState(), then
\* providerCleanup() and providerCleanup = null.
DeleteCleared(s) ==
    [s EXCEPT !.storage = ClearPersisted(@),
              !.attached = DetachListeners(@, s.providerCleanup),
              !.providerCleanup = NoProvider]

\* deleteSessionKey: the deletion call has answered.
DeleteResponse(c) ==
    /\ ~isUpdating
    /\ calls[c].pc = "actuate"
    /\ calls[c].op = "delete"
    /\ calls' = [calls EXCEPT ![c].pc = "returned"]
    /\ attached' = DeleteCleared(Store).attached
    /\ providerCleanup' = DeleteCleared(Store).providerCleanup
    /\ UpdateState(ResetUpdates, c, DeleteCleared(Store).storage)
    /\ UNCHANGED <<subscribers, batch, restarts>>

\* cleanupSessionKey: the deactivation call has answered.
CleanupDeactivated(c) ==
    /\ ~isUpdating
    /\ calls[c].pc = "deact"
    /\ Issue(c, "delete", "del")

\* cleanupSessionKey: the deletion call has answered.
CleanupDeleted(c) ==
    /\ ~isUpdating
    /\ calls[c].pc = "del"
    /\ Return(c, ResetUpdates, <<>>)

\* An updateState call made with the lock free, without its notifications.
Applied(s, updates) ==
    [s EXCEPT !.state = MergeState(s.state, updates),
              !.storage = PersistState(s.storage, MergeState(s.state, updates), updates)]

\* deactivateSessionKey, run alone on a provider that is on the target chain
\* and answers every call: the entry update, then the last update.
DeactivateRun(s) == Applied(Applied(s, EntryUpdates), ActivationUpdates(FALSE))

\* deleteSessionKey, run alone on such a provider.
DeleteRun(s) == Applied(DeleteCleared(Applied(s, EntryUpdates)), ResetUpdates)

\* cleanupSessionKey, run alone on such a provider.
CleanupRun(s) == Applied(Applied(s, EntryUpdates), ResetUpdates)

\* A fundSessionKey that returns the hash as soon as eth_sendTransaction has
\* answered, without asking for the receipt.
FundSentReturns(c) ==
    /\ ~isUpdating
    /\ calls[c].pc = "sendTx"
    /\ Return(c, [isLoading |-> FALSE], <<"t", "x">>)

\* fundSessionKey: eth_sendTransaction has answered with the hash.
FundSent(c) ==
    /\ ~isUpdating
    /\ calls[c].pc = "sendTx"
    /\ Issue(c, "eth_getTransactionReceipt", "receipt")

\* fundSessionKey: checkTx gets a receipt, or none and sleeps 2 seconds.
FundReceipt(c, present) ==
    /\ ~isUpdating
    /\ calls[c].pc = "receipt"
    /\ IF present
       THEN Return(c, [isLoading |-> FALSE], <<"t", "x">>)
       ELSE /\ calls' = [calls EXCEPT ![c].pc = "sleep"]
            /\ UNCHANGED <<state, storage, subscribers, isUpdating, pending, waiters,
                           providerCleanup, attached, lastWriter, batch, restarts, notify, persisted, copy, sent, converted>>

\* A poll that sends the transfer again before it asks for the receipt.
FundPollAgainResubmits(c) ==
    /\ ~isUpdating
    /\ calls[c].pc = "sleep"
    /\ Issue(c, "eth_sendTransaction", "sendTx")

\* fundSessionKey: the 2 second timer fires and checkTx asks again.
FundPollAgain(c) ==
    /\ ~isUpdating
    /\ calls[c].pc = "sleep"
    /\ Issue(c, "eth_getTransactionReceipt", "receipt")

\* sendTransaction: the next request after position pc, given what the caller
\* supplied: the nonce, the fee history, the gas estimate, then the execution.
NextTxRequest(tx, pc) ==
    IF pc = "chain2" /\ ~NonceGiven(tx) THEN <<"eth_getTransactionCount", "nonce">>
    ELSE IF pc \in {"chain2", "nonce"} /\ ~FeesGiven(tx) THEN <<"eth_feeHistory", "fees">>
    ELSE IF pc \in {"chain2", "nonce", "fees"} /\ ~GasLimitGiven(tx)
         THEN <<"eth_estimateGas", "gas">>
    ELSE <<"execute", "exec">>

\* sendTransaction goes on from position pc to the next request, with the fee
\* fields resolved from `source` once it is past step 3.
TxProceed(c, source) ==
    LET next == NextTxRequest(calls[c].tx, calls[c].pc) IN
    /\ calls' = [calls EXCEPT ![c].pc = next[2],
                              ![c].issued = @ \cup {next[1]},
                              ![c].fees = IF next[2] \in {"gas", "exec"}
                                          THEN source ELSE @]
    /\ UNCHANGED <<state, storage, subscribers, isUpdating, pending, waiters,
                   providerCleanup, attached, lastWriter, batch, restarts, notify, persisted, copy, sent, converted>>

\* sendTransaction: a query has answered and the next request goes out.
TxQueryResponse(c) ==
    /\ ~isUpdating
    /\ calls[c].pc \in {"chain2", "nonce", "fees", "gas"}
    /\ TxProceed(c, IF FeesGiven(calls[c].tx) THEN "caller"
                    ELSE IF calls[c].pc = "fees" THEN "history" ELSE calls[c].fees)

\* calculateGasFees of the second copy of the transaction builder: the fee
\* history request is rejected, or answers without a base fee, and the catch
\* block returns the fixed values.  (The copy in core/transaction has no such
\* catch block: there the failure is the RequestRejected of sendTransaction.)
FeeHistoryFallback(c) ==
    /\ ~isUpdating
    /\ calls[c].pc = "fees"
    /\ TxProceed(c, "fallback")

\* sendTransaction: the execution call has answered with the hash.
TxExecuted(c) ==
    /\ ~isUpdating
    /\ calls[c].pc = "exec"
    /\ Return(c, [isLoading |-> FALSE], <<"t", "x">>)

\* The caller of a finished operation takes the result or the error.
Observe(c) ==
    /\ ~isUpdating
    /\ calls[c].pc \in {"returned", "failed"}
    /\ calls' = [calls EXCEPT ![c] = ObservedCall]
    /\ UNCHANGED <<state, storage, subscribers, isUpdating, pending, waiters,
                   providerCleanup, attached, lastWriter, batch, restarts, notify, persisted, copy, sent, converted>>

Events == {"disconnect", "chainChanged"}

EventError(ev) == IF ev = "disconnect" THEN "Provider disconnected" ELSE "Chain changed"

\* The update of handleDisconnect and of handleChainChanged.
EventUpdates(ev) == [isActive |-> FALSE, error |-> EventError(ev)]

\* handleDisconnect, handleChainChanged: the provider emits an event and the
\* attached handler runs (at most one pair is attached at a time).
ProviderEvent(p, ev) ==
    /\ ~isUpdating
    /\ attached[p] > 0
    /\ UpdateState(EventUpdates(ev), 0, storage)
    /\ UNCHANGED <<subscribers, providerCleanup, attached, calls, batch, restarts>>

\* Provider p emits ev while nothing else runs: the handler updates the
\* store when this library has a listener on p, and nothing happens otherwise.
EventRun(s, p, ev) ==
    IF s.attached[p] > 0 THEN Applied(s, EventUpdates(ev)) ELSE s

\* The page is loaded again: every module starts over, storage is kept, and
\* the operations of the old page are gone with it.  A failing storage read
\* leaves the defaults.
Abandon(call) == IF call.pc = "idle" THEN call ELSE ObservedCall

Restart(readOk) ==
    /\ ~isUpdating
    /\ restarts < MaxRestarts
    /\ restarts' = restarts + 1
    /\ state' = IF readOk THEN LoadState(storage) ELSE InitialState
    /\ subscribers' = <<>>
    /\ pending' = <<>>
    /\ waiters' = <<>>
    /\ providerCleanup' = NoProvider
    /\ attached' = [p \in Providers |-> 0]
    /\ calls' = [c \in CallIds |-> Abandon(calls[c])]
    /\ lastWriter' = 0
    /\ notify' = NoNotification
    /\ copy' = NoCopy
    /\ UNCHANGED <<storage, isUpdating, batch, persisted, sent, converted>>

-----------------------------------------------------------------------------
(* The state store on its own: partial updates of single fields, submitted   *)
(* by the library or from inside a subscriber callback.                      *)

KeyA == ExtractAddress(WordA)
KeyB == ExtractAddress(WordB)

FieldValues(f) ==
    CASE f = "sessionKey" -> {KeyA, KeyB}
      [] f = "isActive" -> {TRUE}
      [] f = "balance" -> {<<1, 200>>}
      [] f = "isLoading" -> {TRUE}
      [] f = "error" -> {"Chain changed"}

Partial(f, v) == [g \in {f} |-> v]

\* updateState({f: v}), for a field no earlier call of the batch has named.
SubmitUpdateWith(f, v, written) ==
    /\ f \notin DOMAIN batch
    /\ batch' = [g \in DOMAIN batch \cup {f} |->
                   IF g = f THEN [value |-> v, deferred |-> isUpdating] ELSE batch[g]]
    /\ UpdateStateWith(Partial(f, v), 0, storage, written)
    /\ UNCHANGED <<subscribers, providerCleanup, attached, calls, restarts>>

SubmitUpdate(f, v) == SubmitUpdateWith(f, v, TRUE)

\* A failing write that is not caught: the merge is done, the exception
\* leaves updateState before the forEach, and the promise rejects.
StoreUpdateWriteThrows(f, v) ==
    /\ ~isUpdating
    /\ f \in {"sessionKey", "isActive"}
    /\ f \notin DOMAIN batch
    /\ batch' = [g \in DOMAIN batch \cup {f} |->
                   IF g = f THEN [value |-> v, deferred |-> FALSE] ELSE batch[g]]
    /\ state' = MergeState(state, Partial(f, v))
    /\ isUpdating' = TRUE
    /\ pending' = <<>>
    /\ lastWriter' = 0
    /\ notify' = [Notifying(subscribers) EXCEPT !.rejected = TRUE]
    /\ UNCHANGED <<storage, waiters, subscribers, providerCleanup, attached, calls,
                   restarts, persisted, copy, sent, converted>>

\* The library calls updateState and localStorage.setItem throws (quota,
\* storage disabled): the catch around the write logs it.
StoreUpdateWriteFails(f, v) ==
    /\ ~isUpdating
    /\ f \in {"sessionKey", "isActive"}
    /\ SubmitUpdateWith(f, v, FALSE)

\* The library calls updateState.
StoreUpdate(f, v) ==
    /\ ~isUpdating
    /\ SubmitUpdate(f, v)

\* A subscriber callback calls updateState.
SubscriberUpdates(f, v) ==
    /\ isUpdating
    /\ pending # <<>>
    /\ SubmitUpdate(f, v)

\* The application calls getState() and keeps the record.
GetState ==
    /\ ~isUpdating
    /\ copy' = ShallowCopy(state)
    /\ UNCHANGED <<state, storage, subscribers, isUpdating, pending, waiters,
                   providerCleanup, attached, calls, lastWriter, batch, restarts,
                   notify, persisted, sent, converted>>

\* The application assigns to a field of the record it holds: copy.f = v.
MutateCopy(f, v) ==
    /\ ~isUpdating
    /\ copy.held
    /\ copy.rec[f] # v
    /\ copy' = [copy EXCEPT !.rec[f] = v, !.shared = @ \ {f}]
    /\ UNCHANGED <<state, storage, subscribers, isUpdating, pending, waiters,
                   providerCleanup, attached, calls, lastWriter, batch, restarts,
                   notify, persisted, sent, converted>>

\* What an assignment inside a nested object can make of it: balance.eth = 2,
\* error.message = 'edited'.
NestedValues(f) ==
    IF f = "balance" THEN {<<1, 200>>, <<2, 200>>} ELSE {"Chain changed", "edited"}

\* The application assigns to a field of an object the record it holds
\* refers to: copy.balance.eth = 2.  The object changes, for everyone who
\* refers to it.
MutateCopyNested(f, v) ==
    /\ ~isUpdating
    /\ copy.held
    /\ ~IsNull(f, copy.rec[f])
    /\ copy.rec[f] # v
    /\ copy' = [copy EXCEPT !.rec[f] = v]
    /\ state' = IF f \in copy.shared THEN [state EXCEPT ![f] = v] ELSE state
    /\ UNCHANGED <<storage, subscribers, isUpdating, pending, waiters,
                   providerCleanup, attached, calls, lastWriter, batch, restarts,
                   notify, persisted, sent, converted>>

\* clearPersistedState(), called on its own.
ClearPersistedState ==
    /\ ~isUpdating
    /\ storage' = ClearPersisted(storage)
    /\ persisted' = NoBlob
    /\ UNCHANGED <<state, subscribers, isUpdating, pending, waiters, providerCleanup,
                   attached, calls, lastWriter, batch, restarts, notify, copy, sent, converted>>

-----------------------------------------------------------------------------
(* The transaction builder: steps 5 to 9 of sendTransaction, on bytes *)

UpperChars == <<"A", "B", "C", "D", "E", "F", "X">>
LowerChars == <<"a", "b", "c", "d", "e", "f", "x">>

\* One character of String.prototype.toLowerCase.
LowerChar(ch) ==
    IF \E i \in 1..Len(UpperChars) : UpperChars[i] = ch
    THEN LowerChars[CHOOSE i \in 1..Len(UpperChars) : UpperChars[i] = ch]
    ELSE ch

\* s.toLowerCase()
ToLowerCase(s) == [i \in 1..Len(s) |-> LowerChar(s[i])]

\* BigInt(n).toString(16)
RECURSIVE HexOf(_)
HexOf(n) == IF n < 16 THEN <<HexDigits[n + 1]>>
            ELSE HexOf(n \div 16) \o <<HexDigits[(n % 16) + 1]>>

\* toHex(n): '0x' and the hex digits of n without leading zeros.
ToHex(n) == HexPrefix \o HexOf(n)

\* The map over txArray: a string that does not start with 0x gets the prefix.
EnsurePrefix(s) ==
    IF Len(s) >= 2 /\ SubSeq(s, 1, 2) = HexPrefix THEN s ELSE HexPrefix \o s

\* x || fallback, for strings: undefined and '' give the fallback.
OrElse(s, fallback) == IF s = <<>> THEN fallback ELSE s

\* The two copies of the builder: core/transaction, and the one with the
\* fee fallback and the nonce 0 special case.
Builders == {"core", "second"}

\* A field list whose `to` keeps the caller's letter case.
TxFieldsCaseKept(p) ==
    <<EnsurePrefix(ToHex(p.chainId)),
      EnsurePrefix(IF p.builder = "second" /\ p.nonce = 0
                   THEN HexPrefix ELSE ToHex(p.nonce)),
      EnsurePrefix(ToHex(p.maxPriorityFeePerGas)),
      EnsurePrefix(ToHex(p.maxFeePerGas)),
      EnsurePrefix(ToHex(p.gasLimit)),
      EnsurePrefix(p.to),
      EnsurePrefix(OrElse(ToLowerCase(p.value), <<"0", "x", "0">>)),
      EnsurePrefix(OrElse(ToLowerCase(p.data), HexPrefix))>>

\* Step 5: the string fields of txArray (chainId, nonce, maxPriorityFeePerGas,
\* maxFeePerGas, gasLimit, to, value, data); the empty access list and the
\* three empty signature fields follow them.
TxFields(p) ==
    <<EnsurePrefix(ToHex(p.chainId)),
      EnsurePrefix(IF p.builder = "second" /\ p.nonce = 0
                   THEN HexPrefix ELSE ToHex(p.nonce)),
      EnsurePrefix(ToHex(p.maxPriorityFeePerGas)),
      EnsurePrefix(ToHex(p.maxFeePerGas)),
      EnsurePrefix(ToHex(p.gasLimit)),
      EnsurePrefix(ToLowerCase(p.to)),
      EnsurePrefix(OrElse(ToLowerCase(p.value), <<"0", "x", "0">>)),
      EnsurePrefix(OrElse(ToLowerCase(p.data), HexPrefix))>>

\* The value of a hex digit of either case, as parseInt and the hex decoders
\* read it; 0 stands for what they make of any other character.
HexValue(ch) == IF DigitValue(LowerChar(ch)) < 0 THEN 0 ELSE DigitValue(LowerChar(ch))

\* The bytes of an even number of hex characters.
HexPairs(h) == [i \in 1..(Len(h) \div 2) |-> HexValue(h[2 * i - 1]) * 16 + HexValue(h[2 * i])]

\* rlp's input conversion of a 0x string: strip the prefix, pad to an even
\* length with a leading 0, decode.
RlpInput(s) ==
    LET h == SubSeq(s, 3, Len(s))
    IN HexPairs(IF Len(h) % 2 = 1 THEN <<"0">> \o h ELSE h)

\* The big-endian bytes of a length.
RECURSIVE LengthBytes(_)
LengthBytes(n) == IF n < 256 THEN <<n>> ELSE LengthBytes(n \div 256) \o <<n % 256>>

\* The RLP length prefix with offset 128 (byte strings) or 192 (lists).
RlpLength(len, offset) ==
    IF len <= 55 THEN <<offset + len>>
    ELSE <<offset + 55 + Len(LengthBytes(len))>> \o LengthBytes(len)

\* RLP of a byte string.
RlpBytes(b) ==
    IF Len(b) = 1 /\ b[1] < 128 THEN b ELSE RlpLength(Len(b), 128) \o b

RECURSIVE RlpConcat(_, _)
RlpConcat(items, i) ==
    IF i > Len(items) THEN <<>>
    ELSE RlpBytes(RlpInput(items[i])) \o RlpConcat(items, i + 1)

\* Step 6: rlpEncode(txArray): the eight string fields, the empty list
\* (0xc0) and three empty byte strings (0x80), wrapped as a list.
RlpEncode(fields) ==
    LET body == RlpConcat(fields, 1) \o <<192, 128, 128, 128>>
    IN RlpLength(Len(body), 192) \o body

\* byte.toString(16).padStart(2, '0'), joined.
BytesToHex(b) ==
    [i \in 1..(2 * Len(b)) |->
        IF i % 2 = 1 THEN HexDigits[(b[(i + 1) \div 2] \div 16) + 1]
        ELSE HexDigits[(b[i \div 2] % 16) + 1]]

\* hexToBytes('0x' + hex) of utils/encoding.
HexToBytes(hex) ==
    LET clean == IF Len(hex) >= 2 /\ SubSeq(hex, 1, 2) = HexPrefix
                 THEN SubSeq(hex, 3, Len(hex)) ELSE hex
    IN HexPairs(clean)

Base64Chars ==
    <<"A", "B", "C", "D", "E", "F", "G", "H", "I", "J", "K", "L", "M",
      "N", "O", "P", "Q", "R", "S", "T", "U", "V", "W", "X", "Y", "Z",
      "a", "b", "c", "d", "e", "f", "g", "h", "i", "j", "k", "l", "m",
      "n", "o", "p", "q", "r", "s", "t", "u", "v", "w", "x", "y", "z",
      "0", "1", "2", "3", "4", "5", "6", "7", "8", "9", "+", "/">>

\* btoa of one group of up to three bytes.
Base64Group(g) ==
    LET b1 == g[1]
        b2 == IF Len(g) >= 2 THEN g[2] ELSE 0
        b3 == IF Len(g) >= 3 THEN g[3] ELSE 0
    IN <<Base64Chars[(b1 \div 4) + 1],
         Base64Chars[((b1 % 4) * 16 + (b2 \div 16)) + 1],
         IF Len(g) >= 2 THEN Base64Chars[((b2 % 16) * 4 + (b3 \div 64)) + 1] ELSE "=",
         IF Len(g) >= 3 THEN Base64Chars[(b3 % 64) + 1] ELSE "=">>

\* btoa(String.fromCharCode(...bytes))
RECURSIVE Base64(_)
Base64(b) ==
    IF Len(b) = 0 THEN <<>>
    ELSE IF Len(b) <= 3 THEN Base64Group(b)
    ELSE Base64Group(SubSeq(b, 1, 3)) \o Base64(SubSeq(b, 4, Len(b)))

\* Steps 5 to 8: the payload sendTransaction gives to the execution call for
\* the resolved parameters p.
TxPayload(p) ==
    Base64(<<2>> \o HexToBytes(HexPrefix \o BytesToHex(RlpEncode(TxFields(p)))))

MaxSubmissions == 2

\* A sendTransaction reaches its execution call with the payload of its
\* resolved parameters.
SubmitPayload(p) ==
    /\ Cardinality(sent) < MaxSubmissions
    /\ sent' = sent \cup {[params |-> p, payload |-> TxPayload(p)]}
    /\ UNCHANGED <<state, storage, subscribers, isUpdating, pending, waiters,
                   providerCleanup, attached, calls, lastWriter, batch, restarts,
                   notify, persisted, copy, converted>>

\* The resolved parameters of the calls: addresses, values and data in lower,
\* upper and mixed case, no value, and the nonces 0 and 1.
TxInputs ==
    [builder : Builders, chainId : {TEN_CHAIN_ID}, nonce : {0, 1},
     maxPriorityFeePerGas : {1}, maxFeePerGas : {300}, gasLimit : {21000},
     to : {<<"0", "x", "a", "b">>, <<"0", "X", "a", "B">>},
     value : {<<>>, <<"0", "x", "1", "f">>, <<"0", "X", "1", "F">>},
     data : {<<"0", "x", "b", "e">>, <<"0", "x", "B", "E">>}]

-----------------------------------------------------------------------------
(* Ether amounts: parseEther and formatEther of utils/encoding.  A bigint is   *)
(* its decimal text (wei.toString()), a number is the pair of its integer      *)
(* digits without leading zeros and its fraction digits without trailing       *)
(* zeros, so the value zero is the pair of two empty sequences.  (parseFloat   *)
(* rounds to the nearest double; equal pairs give the same double.)            *)

Decimals == 18

IsDigit(ch) == \E i \in 1..10 : HexDigits[i] = ch

\* The position of the first '.', or 0.
DotAt(s) ==
    IF \E i \in 1..Len(s) : s[i] = "."
    THEN CHOOSE i \in 1..Len(s) : s[i] = "." /\ \A j \in 1..(i - 1) : s[j] # "."
    ELSE 0

\* const [whole, decimal = ''] = value.split('.')
SplitDot(s) ==
    IF DotAt(s) = 0 THEN [whole |-> s, decimal |-> <<>>]
    ELSE LET rest == SubSeq(s, DotAt(s) + 1, Len(s))
         IN [whole |-> SubSeq(s, 1, DotAt(s) - 1),
             decimal |-> IF DotAt(rest) = 0 THEN rest
                         ELSE SubSeq(rest, 1, DotAt(rest) - 1)]

\* s.padEnd(n, '0') and s.padStart(n, '0')
PadEnd(s, n) == IF Len(s) >= n THEN s ELSE s \o Rep("0", n - Len(s))
PadStart(s, n) == IF Len(s) >= n THEN s ELSE Rep("0", n - Len(s)) \o s

RECURSIVE StripLeadingZeros(_)
StripLeadingZeros(s) ==
    IF s # <<>> /\ Head(s) = "0" THEN StripLeadingZeros(Tail(s)) ELSE s

RECURSIVE StripTrailingZeros(_)
StripTrailingZeros(s) ==
    IF s # <<>> /\ s[Len(s)] = "0"
    THEN StripTrailingZeros(SubSeq(s, 1, Len(s) - 1)) ELSE s

\* BigInt(digits).toString(): the digits without leading zeros, "0" for zero.
BigIntText(digits) ==
    IF StripLeadingZeros(digits) = <<>> THEN <<"0">> ELSE StripLeadingZeros(digits)

\* A parse that pads the fraction on the left: decimal.padStart(18, '0').
ParseEtherPadStart(value) ==
    BigIntText(SplitDot(value).whole
               \o SubSeq(PadStart(SplitDot(value).decimal, Decimals), 1, Decimals))

\* parseEther(value): BigInt(whole + decimal.padEnd(18, '0').slice(0, 18))
ParseEther(value) ==
    BigIntText(SplitDot(value).whole
               \o SubSeq(PadEnd(SplitDot(value).decimal, Decimals), 1, Decimals))

\* The longest prefix of s made of decimal digits.
RECURSIVE DigitPrefix(_)
DigitPrefix(s) ==
    IF s # <<>> /\ IsDigit(Head(s)) THEN <<Head(s)>> \o DigitPrefix(Tail(s)) ELSE <<>>

\* parseFloat(text): the digits before the point, and when a point follows
\* them, the digits after it.
ParseFloat(text) ==
    LET int == DigitPrefix(text)
        rest == SubSeq(text, Len(int) + 1, Len(text))
        frac == IF rest # <<>> /\ Head(rest) = "." THEN DigitPrefix(Tail(rest)) ELSE <<>>
    IN [int |-> StripLeadingZeros(int), frac |-> StripTrailingZeros(frac)]

\* formatEther(wei)
FormatEther(wei) ==
    IF Len(wei) <= Decimals
    THEN ParseFloat(<<"0", ".">> \o PadStart(wei, Decimals))
    ELSE ParseFloat(SubSeq(wei, 1, Len(wei) - Decimals) \o <<".">>
                    \o SubSeq(wei, Len(wei) - Decimals + 1, Len(wei)))

\* The amounts of the callers: the digits before the point, whether there is
\* a point, and up to 18 digits after it; at least one digit in all.
AmountInputs ==
    {a \in [whole : {<<>>, <<"0">>, <<"1">>, <<"0", "7">>, <<"1", "0">>},
            point : BOOLEAN,
            fraction : {<<>>, <<"5">>, <<"0", "5">>, <<"5", "0">>,
                        Rep("0", Decimals - 1) \o <<"1">>,
                        <<"9">> \o Rep("0", Decimals - 2) \o <<"1">>}] :
        /\ a.whole # <<>> \/ a.fraction # <<>>
        /\ ~a.point => a.fraction = <<>>}

\* The amount as the caller writes it.
AmountText(a) == a.whole \o (IF a.point THEN <<".">> \o a.fraction ELSE <<>>)

MaxConversions == 2

\* An amount is parsed (as fundSessionKey does) and the wei are formatted
\* (as updateBalance does).
ConvertEther(a) ==
    /\ Cardinality(converted) < MaxConversions
    /\ converted' = converted \cup
          {[amount |-> a, wei |-> ParseEther(AmountText(a)),
            eth |-> FormatEther(ParseEther(AmountText(a)))]}
    /\ UNCHANGED <<state, storage, subscribers, isUpdating, pending, waiters,
                   providerCleanup, attached, calls, lastWriter, batch, restarts,
                   notify, persisted, copy, sent>>

-----------------------------------------------------------------------------
(* The specification of the library *)

Init ==
    /\ storage = NoBlob
    /\ state = LoadState(storage)
    /\ subscribers = <<>>
    /\ isUpdating = FALSE
    /\ pending = <<>>
    /\ waiters = <<>>
    /\ providerCleanup = NoProvider
    /\ attached = [p \in Providers |-> 0]
    /\ calls = [c \in CallIds |-> IdleCall]
    /\ lastWriter = 0
    /\ batch = <<>>
    /\ restarts = 0
    /\ notify = NoNotification
    /\ persisted = NoBlob
    /\ copy = NoCopy
    /\ sent = {}
    /\ converted = {}

OpShapes(op) == IF op = "send" THEN TxShapes ELSE {NoTx}

\* Only createSessionKey uses its provider for more than requests.
OpProviders(op) == IF op = "create" THEN Providers ELSE {"p1"}

Next ==
    \/ \E c \in CallIds, op \in Ops :
         \E tx \in OpShapes(op), p \in OpProviders(op) : StartOp(c, op, p, tx)
    \/ \E c \in CallIds, op \in Ops :
         \E tx \in OpShapes(op), p \in OpProviders(op) : SubscriberStartsOp(c, op, p, tx)
    \/ SubscriberObserves
    \/ EndUpdate
    \/ WakeWaiter
    \/ \E s \in Subscribers : Subscribe(s)
    \/ \E s \in Subscribers : Unsubscribe(s)
    \/ \E c \in CallIds, r \in ChainIdResponses : ChainIdResponse(c, r)
    \/ \E c \in CallIds, rej \in Rejections : RequestRejected(c, rej)
    \/ \E c \in CallIds, r \in StorageResponses : CreateResponse(c, r)
    \/ \E c \in CallIds, r \in StorageResponses : RetrieveResponse(c, r)
    \/ \E c \in CallIds : ActivationResponse(c)
    \/ \E c \in CallIds : DeleteResponse(c)
    \/ \E c \in CallIds : CleanupDeactivated(c)
    \/ \E c \in CallIds : CleanupDeleted(c)
    \/ \E c \in CallIds : FundSent(c)
    \/ \E c \in CallIds, present \in BOOLEAN : FundReceipt(c, present)
    \/ \E c \in CallIds : FundPollAgain(c)
    \/ \E c \in CallIds : TxQueryResponse(c)
    \/ \E c \in CallIds : FeeHistoryFallback(c)
    \/ \E c \in CallIds : TxExecuted(c)
    \/ \E c \in CallIds : Observe(c)
    \/ \E p \in Providers, ev \in Events : ProviderEvent(p, ev)
    \/ \E readOk \in BOOLEAN : Restart(readOk)

Spec == Init /\ [][Next]_vars

NextStore ==
    \/ \E f \in Fields : \E v \in FieldValues(f) : StoreUpdate(f, v)
    \/ \E f \in Fields : \E v \in FieldValues(f) : SubscriberUpdates(f, v)
    \/ SubscriberObserves
    \/ EndUpdate
    \/ WakeWaiter
    \/ \E s \in Subscribers : Subscribe(s)
    \/ \E s \in Subscribers : Unsubscribe(s)

SpecStore == Init /\ [][NextStore]_vars

\* The application's callbacks of the store-only specification below.
NotifySubscribers == {"s1", "s2"}

\* The state store with subscribers that throw, subscribe and unsubscribe
\* from inside their callback, and with a storage whose writes may fail.
NextNotify ==
    \/ \E f \in Fields : \E v \in FieldValues(f) : StoreUpdate(f, v)
    \/ \E f \in Fields : \E v \in FieldValues(f) : StoreUpdateWriteFails(f, v)
    \/ \E f \in Fields : \E v \in FieldValues(f) : SubscriberUpdates(f, v)
    \/ SubscriberObserves
    \/ SubscriberThrows
    \/ \E s \in NotifySubscribers : SubscriberSubscribes(s)
    \/ \E s \in NotifySubscribers : SubscriberUnsubscribes(s)
    \/ EndUpdate
    \/ WakeWaiter
    \/ WakeWaiterWriteFails
    \/ \E s \in NotifySubscribers : Subscribe(s)
    \/ \E s \in NotifySubscribers : Unsubscribe(s)

SpecNotify == Init /\ [][NextNotify]_vars

\* The state store across page loads: updates of every field, writes that
\* fail, a cleared storage, and restarts whose read of the storage may fail.
NextReload ==
    \/ \E f \in Fields : \E v \in FieldValues(f) : StoreUpdate(f, v)
    \/ \E f \in Fields : \E v \in FieldValues(f) : StoreUpdateWriteFails(f, v)
    \/ \E f \in Fields : \E v \in FieldValues(f) : SubscriberUpdates(f, v)
    \/ SubscriberObserves
    \/ EndUpdate
    \/ WakeWaiter
    \/ \E s \in Subscribers : Subscribe(s)
    \/ \E s \in Subscribers : Unsubscribe(s)
    \/ ClearPersistedState
    \/ \E readOk \in BOOLEAN : Restart(readOk)

SpecReload == Init /\ [][NextReload]_vars

\* The state store with a storage whose operations succeed: updates of
\* every field, a cleared storage, and page loads.
NextPersist ==
    \/ \E f \in Fields : \E v \in FieldValues(f) : StoreUpdate(f, v)
    \/ \E f \in Fields : \E v \in FieldValues(f) : SubscriberUpdates(f, v)
    \/ SubscriberObserves
    \/ EndUpdate
    \/ WakeWaiter
    \/ \E s \in Subscribers : Subscribe(s)
    \/ \E s \in Subscribers : Unsubscribe(s)
    \/ ClearPersistedState
    \/ \E readOk \in {TRUE} : Restart(readOk)

SpecPersist == Init /\ [][NextPersist]_vars

\* The state store and an application that keeps and changes a record it
\* got from getState.
NextCopy ==
    \/ \E f \in Fields : \E v \in FieldValues(f) : StoreUpdate(f, v)
    \/ SubscriberObserves
    \/ EndUpdate
    \/ \E s \in Subscribers : Subscribe(s)
    \/ \E s \in Subscribers : Unsubscribe(s)
    \/ GetState
    \/ \E f \in Fields : \E v \in FieldValues(f) : MutateCopy(f, v)
    \/ \E f \in ObjectFields : \E v \in NestedValues(f) : MutateCopyNested(f, v)

SpecCopy == Init /\ [][NextCopy]_vars

\* The transaction builder on its own: calls of sendTransaction that reach
\* the execution call.
NextEncode == \E p \in TxInputs : SubmitPayload(p)

SpecEncode == Init /\ [][NextEncode]_vars

\* The ether conversions on their own.
NextEther == \E a \in AmountInputs : ConvertEther(a)

SpecEther == Init /\ [][NextEther]_vars

\* createSessionKey called again and again on a gateway that keeps its key.
NextCreate ==
    \/ \E c \in CallIds, p \in Providers : StartCreate(c, p)
    \/ SubscriberObserves
    \/ EndUpdate
    \/ \E s \in Subscribers : Subscribe(s)
    \/ \E s \in Subscribers : Unsubscribe(s)
    \/ \E c \in CallIds, r \in ChainIdResponses : ChainIdResponse(c, r)
    \/ \E c \in CallIds, rej \in Rejections : RequestRejected(c, rej)
    \/ \E c \in CallIds : GatewayCreateResponse(c)
    \/ \E c \in CallIds : GatewayRetrieveResponse(c)
    \/ \E p \in Providers, ev \in Events : ProviderEvent(p, ev)

SpecCreate == Init /\ [][NextCreate]_vars

\* fundSessionKey on its own: the calls of the application and of subscriber
\* callbacks, the provider's answers and the 2 second timer of checkTx.
NextFund ==
    \/ \E c \in CallIds : StartOp(c, "fund", "p1", NoTx)
    \/ \E c \in CallIds : SubscriberStartsOp(c, "fund", "p1", NoTx)
    \/ SubscriberObserves
    \/ EndUpdate
    \/ WakeWaiter
    \/ \E s \in Subscribers : Subscribe(s)
    \/ \E s \in Subscribers : Unsubscribe(s)
    \/ \E c \in CallIds, r \in ChainIdResponses : ChainIdResponse(c, r)
    \/ \E c \in CallIds, rej \in Rejections : RequestRejected(c, rej)
    \/ \E c \in CallIds : FundSent(c)
    \/ \E c \in CallIds, present \in BOOLEAN : FundReceipt(c, present)
    \/ \E c \in CallIds : FundPollAgain(c)
    \/ \E c \in CallIds : Observe(c)

\* The event loop runs every callback that is ready and fires every timer
\* that is due, and the provider answers every request (with a receipt or
\* with none).
FundFairness ==
    /\ WF_vars(SubscriberObserves)
    /\ WF_vars(EndUpdate)
    /\ WF_vars(WakeWaiter)
    /\ \A c \in CallIds :
          /\ WF_vars(\E r \in ChainIdResponses : ChainIdResponse(c, r))
          /\ WF_vars(FundSent(c))
          /\ WF_vars(\E present \in BOOLEAN : FundReceipt(c, present))
          /\ WF_vars(FundPollAgain(c))

SpecFund == Init /\ [][NextFund]_vars /\ FundFairness

\* The same with a provider that has the receipt at some poll: of the
\* receipt queries of a call that keeps polling, one is answered with it.
SpecFundConfirmed ==
    /\ Init /\ [][NextFund]_vars
    /\ FundFairness
    /\ \A c \in CallIds : SF_vars(FundReceipt(c, TRUE))

-----------------------------------------------------------------------------
(* Properties *)

Quiet == ~isUpdating /\ waiters = <<>>

\* C1: in every reachable state isActive = true implies sessionKey non-null.
C1_ActiveImpliesKey == state.isActive => state.sessionKey # NoKey

\* A call that is submitted and merged in the same step.
DirectMerge == ~isUpdating /\ isUpdating' /\ waiters' = waiters

\* C2: updates are merged in submission order (no call is merged while a call
\* submitted before it still waits), and no merge begins while the
\* merge-persist-notify section of another update is running.
C2_SubmissionOrder ==
    /\ [][DirectMerge => waiters = <<>>]_vars
    /\ [][isUpdating => (state' = state /\ storage' = storage)]_vars

\* C3: once all the calls of a batch of updateState calls, each naming a
\* different field, have completed, the record holds every submitted value.
C3_NoLostUpdate ==
    Quiet => \A f \in DOMAIN batch : state[f] = batch[f].value

\* C3 witness: all five fields submitted, two of the calls from inside a
\* notification, and all of them completed.
C3_Witness ==
    /\ Quiet
    /\ DOMAIN batch = Fields
    /\ Cardinality({f \in Fields : batch[f].deferred}) >= 2
    /\ state.sessionKey = KeyB

ProviderActuation == Actuations \cup {"eth_sendTransaction"}

\* C4: when the provider reports another chain id than the target's, the
\* operation fails with the wrong-network error, and an operation that failed
\* so has issued no actuation call and no eth_sendTransaction.
C4_WrongNetworkFirst ==
    /\ [](\A c \in CallIds :
            /\ calls[c].err = WrongNetwork => calls[c].issued = {"eth_chainId"}
            /\ calls[c].pc = "chain" => calls[c].issued \cap ProviderActuation = {})
    /\ [][\A c \in CallIds, r \in ChainIdResponses :
            (calls[c].pc = "chain" /\ ParseInt16(r) # TEN_CHAIN_ID /\ ChainIdResponse(c, r))
               => (calls'[c].pc = "failed" /\ calls'[c].err = WrongNetwork)]_vars

\* C4 witness: a sendTransaction and a cleanupSessionKey that both failed on
\* the network check.
C4_Witness ==
    /\ calls[1].op = "send" /\ calls[1].err = WrongNetwork /\ calls[1].pc = "failed"
    /\ calls[2].op = "cleanup" /\ calls[2].err = WrongNetwork /\ calls[2].pc = "failed"

HoldsActiveKey(st) == st.sessionKey # NoKey /\ st.isActive

\* C5: a sendTransaction that finds no active session key in the store
\* (sessionKey null, or isActive false) does not get past its session-key
\* check, so it issues no execution call.
C5_RequiresActiveKey ==
    [][\A c \in CallIds :
         (calls[c].op = "send" /\ calls[c].pc = "chain" /\ ~HoldsActiveKey(state))
            => calls'[c].pc # "chain2"]_vars

\* C6: an operation starts with isLoading = true and error = null in the
\* record, and once it has failed and all is quiet, with no update of anyone
\* else merged since, the record holds the raised error and isLoading = false.
C6_FailureRecorded ==
    /\ [][\A c \in CallIds :
            (calls[c].pc = "idle" /\ calls'[c].pc = "chain")
               => (state'.isLoading /\ state'.error = NoError)]_vars
    /\ [](\A c \in CallIds :
            (/\ calls[c].pc = "failed"
             /\ lastWriter = c
             /\ Quiet
             /\ \A d \in CallIds \ {c} : ~InFlight(d))
               => (state.error = calls[c].err /\ ~state.isLoading))

\* C7: when the deactivation call of cleanupSessionKey fails, the operation
\* fails with that error, the record holds it, sessionKey is unchanged and the
\* deletion call is never issued.
C7_CleanupStopsAtDeactivate ==
    /\ [][\A c \in CallIds, rej \in Rejections :
            (calls[c].op = "cleanup" /\ calls[c].pc = "deact" /\ RequestRejected(c, rej))
               => (/\ calls'[c].pc = "failed"
                   /\ calls'[c].err = NormalizeError("cleanup", rej)
                   /\ state'.error = calls'[c].err
                   /\ state'.sessionKey = state.sessionKey
                   /\ "delete" \notin calls'[c].issued)]_vars
    /\ [][\A c \in CallIds :
            calls[c].pc = "failed" => calls'[c].pc \in {"failed", "observed"}]_vars

\* C7 witness: a cleanupSessionKey that failed at its deactivation call while
\* the store held a session key.
C7_Witness ==
    \E c \in CallIds :
        /\ calls[c].op = "cleanup"
        /\ calls[c].pc = "failed"
        /\ "deactivate" \in calls[c].issued
        /\ state.error = "Cleanup failed"
        /\ state.sessionKey = KeyA

\* The last 40 characters of a 32-byte word, behind 0x.
LowBytes(r) == HexPrefix \o [i \in 1..AddressChars |-> r[Len(r) - AddressChars + i]]

\* What createSessionKey does with an answer that counts as empty, at the
\* creation call and at the retrieval call, and with one that does not.
CreateOutcome(c, r, empty) ==
    /\ CreateResponse(c, r) =>
         IF empty
         THEN calls'[c].pc = "retrieve" /\ "retrieve" \in calls'[c].issued
         ELSE /\ calls'[c].pc = "returned"
              /\ calls'[c].ret = LowBytes(r)
              /\ "retrieve" \notin calls'[c].issued
              /\ state'.sessionKey = calls'[c].ret
    /\ RetrieveResponse(c, r) =>
         IF empty
         THEN /\ calls'[c].pc = "failed"
              /\ calls'[c].err = CreationFailed
              /\ state'.sessionKey = state.sessionKey
         ELSE /\ calls'[c].pc = "returned"
              /\ calls'[c].ret = LowBytes(r)
              /\ state'.sessionKey = calls'[c].ret

\* C8 as claimed: the empty answer is the empty sentinel (32 zero bytes); any
\* other creation answer is the key, any other retrieval answer is the key.
C8_CreateResultClaimed ==
    [][\A c \in CallIds, r \in StorageResponses :
         CreateOutcome(c, r, r = EmptySentinel)]_vars

\* C8 as amended: the empty answer is the empty sentinel or a missing answer
\* (null, undefined, ''); a creation answer that is not empty gives 0x plus its
\* last 40 characters with no retrieval call, an empty one leads to the
\* retrieval call, whose answer gives the address when it is not empty and the
\* creation-failed error, with sessionKey unchanged, when it is empty too.
C8_CreateResult ==
    [][\A c \in CallIds, r \in StorageResponses :
         CreateOutcome(c, r, r = EmptySentinel \/ r = NullResponse)]_vars

\* C8 witness: a createSessionKey that made the retrieval call and returned the
\* address of the retrieval answer.
C8_Witness ==
    \E c \in CallIds :
        /\ calls[c].op = "create"
        /\ calls[c].pc = "returned"
        /\ "retrieve" \in calls[c].issued
        /\ calls[c].ret = KeyB
        /\ state.sessionKey = KeyB

\* C9: when deleteSessionKey succeeds, storage holds no persisted state, no
\* listener of the library is attached, and the record has sessionKey = null,
\* isActive = false, balance = null.
C9_DeleteClearsAll ==
    [][\A c \in CallIds :
         DeleteResponse(c)
            => (/\ storage' = NoBlob
                /\ \A p \in Providers : attached'[p] = 0
                /\ state'.sessionKey = NoKey
                /\ ~state'.isActive
                /\ state'.balance = NoBalance)]_vars

\* C10: from any quiet state, cleanupSessionKey leaves the same record, the
\* same storage content and the same attached listeners as deactivateSessionKey
\* followed by deleteSessionKey.
C10_CleanupIsDeactivateThenDelete ==
    (Quiet /\ \A c \in CallIds : ~InFlight(c))
        => /\ CleanupRun(Store).state = DeleteRun(DeactivateRun(Store)).state
           /\ CleanupRun(Store).storage = DeleteRun(DeactivateRun(Store)).storage
           /\ CleanupRun(Store).attached = DeleteRun(DeactivateRun(Store)).attached

\* C11: fundSessionKey always terminates: a call that has sent the funding
\* transaction returns or fails, also when the provider never has a receipt
\* (then with the confirmation-timeout error after a capped number of polls).
C11_FundTerminates ==
    \A c \in CallIds :
        (calls[c].pc = "sendTx") ~> (calls[c].pc \in {"returned", "failed", "observed"})

\* C12: a sendTransaction without explicit fee parameters whose fee-history
\* query fails does not fail there: it goes on with the fallback fee values
\* to the session-execution call.
C12_FeeFallbackNeverThrows ==
    [][\A c \in CallIds :
         (calls[c].op = "send" /\ calls[c].pc = "fees" /\ calls'[c].pc # "fees")
            => calls'[c].pc # "failed"]_vars

\* The callbacks the finished forEach has invoked for subscriber s.
Invocations(s) == {j \in 1..Len(notify.invoked) : notify.invoked[j].sub = s}

\* The subscribers that were registered at the merge and were not
\* unsubscribed while its forEach ran.
StayedRegistered ==
    {notify.registered[i] : i \in 1..Len(notify.registered)} \ notify.dropped

\* C13: a callback that throws leaves the record and the storage as merged,
\* does not end the forEach and does not make updateState reject, and when
\* the forEach ends every subscriber that stayed registered has been invoked.
C13_ThrowIsContained ==
    /\ [][SubscriberThrows =>
            (/\ pending' = Tail(pending)
             /\ state' = state
             /\ storage' = storage
             /\ isUpdating'
             /\ ~notify'.rejected)]_vars
    /\ [][EndUpdate => (\A s \in StayedRegistered : Invocations(s) # {})]_vars

\* C13 witness: the first of two subscribers threw and the second was
\* invoked after it with the merged record.
C13_Witness ==
    /\ isUpdating
    /\ pending = <<>>
    /\ Len(notify.invoked) = 2
    /\ notify.invoked[1].threw
    /\ notify.invoked[2].sub # notify.invoked[1].sub
    /\ notify.invoked[2].seen = state
    /\ state.sessionKey = KeyA

C17_WriteFailureNonFatal ==
    /\ [][\A f \in Fields : \A v \in FieldValues(f) :
            StoreUpdateWriteFails(f, v) =>
               (/\ state' = MergeState(state, Partial(f, v))
                /\ storage' = storage
                /\ isUpdating'
                /\ pending' = subscribers
                /\ ~notify'.rejected)]_vars
    /\ [][WakeWaiterWriteFails =>
            (/\ state' = MergeState(state, Head(waiters).updates)
             /\ pending' = subscribers
             /\ ~notify'.rejected)]_vars
    /\ [][EndUpdate =>
            (\A s \in StayedRegistered :
                \E j \in Invocations(s) : notify.invoked[j].seen = state)]_vars

\* C17 witness: the write of a new session key failed (nothing is stored),
\* the record holds the key and both subscribers were given it.
C17_Witness ==
    /\ storage = NoBlob
    /\ state.sessionKey = KeyB
    /\ isUpdating
    /\ pending = <<>>
    /\ Len(notify.invoked) = 2
    /\ \A j \in 1..2 : notify.invoked[j].seen.sessionKey = KeyB

\* C15: in every reachable state in which a session key is held, a
\* disconnect or chainChanged of the provider in use leaves isActive = false
\* and an error in the record (whichever provider of the application is
\* taken to be the one in use).
C15_EventsDeactivate ==
    (Quiet /\ HasSessionKey(state))
        => \E p \in Providers : \A ev \in Events :
              /\ ~EventRun(Store, p, ev).state.isActive
              /\ EventRun(Store, p, ev).state.error # NoError

\* C16: isLoading is true whenever an operation has started and has not yet
\* returned or failed (looked at when no update is being merged or waits).
C16_LoadingWhileInFlight ==
    (Quiet /\ \E c \in CallIds : InFlight(c)) => state.isLoading

\* C18: after a process start sessionKey and isActive are the values of the
\* last write the storage kept (null and false when it holds nothing or the
\* read fails), and balance, isLoading and error are null, false and null.
C18_RestartRoundTrip ==
    [][\A readOk \in BOOLEAN :
         Restart(readOk) =>
            state' = [sessionKey |-> IF readOk /\ persisted # NoBlob
                                     THEN persisted[1].sessionKey ELSE NoKey,
                      isActive |-> IF readOk /\ persisted # NoBlob
                                   THEN persisted[1].isActive ELSE FALSE,
                      balance |-> NoBalance,
                      isLoading |-> FALSE,
                      error |-> NoError]]_vars

\* C18 witness: a process that had merged a balance, isLoading = true and an
\* error was restarted, and the new one holds the persisted key and isActive
\* with the three other fields at their defaults.
C18_Witness ==
    /\ restarts = 1
    /\ Quiet
    /\ \A f \in {"balance", "isLoading", "error"} :
          f \in DOMAIN batch /\ ~batch[f].deferred
    /\ state = [InitialState EXCEPT !.sessionKey = KeyB, !.isActive = TRUE]

\* C19: no assignment to a field of a record got from getState, or to a field
\* of its nested balance object, changes the record of the store (what later
\* getState calls and subscribers are given).
C19_GetStateCopyIsolated ==
    [][(\/ \E f \in Fields : \E v \in FieldValues(f) : MutateCopy(f, v)
        \/ \E v \in NestedValues("balance") : MutateCopyNested("balance", v))
          => state' = state]_vars

\* Two strings that differ in letter case only.
SameUpToCase(a, b) ==
    /\ Len(a) = Len(b)
    /\ \A i \in 1..Len(a) :
          \/ a[i] = b[i]
          \/ \E k \in 1..Len(UpperChars) :
                {a[i], b[i]} = {UpperChars[k], LowerChars[k]}

Resolved(p) ==
    <<p.builder, p.chainId, p.nonce, p.maxPriorityFeePerGas, p.maxFeePerGas, p.gasLimit>>

\* C20: two sendTransaction calls with the same resolved nonce, fees, gas
\* limit and chain id whose to, value and data differ in letter case only
\* submit the same payload, byte for byte.
C20_EncodingCaseInsensitive ==
    \A a \in sent, b \in sent :
        (/\ Resolved(a.params) = Resolved(b.params)
         /\ SameUpToCase(a.params.to, b.params.to)
         /\ SameUpToCase(a.params.value, b.params.value)
         /\ SameUpToCase(a.params.data, b.params.data))
            => a.payload = b.payload

\* C20 witness: two calls whose to, value and data all differ in case were
\* submitted with one and the same payload.
C20_Witness ==
    \E a \in sent, b \in sent :
        /\ a.params.to # b.params.to
        /\ a.params.value # b.params.value
        /\ a.params.data # b.params.data
        /\ Resolved(a.params) = Resolved(b.params)
        /\ SameUpToCase(a.params.to, b.params.to)
        /\ SameUpToCase(a.params.value, b.params.value)
        /\ SameUpToCase(a.params.data, b.params.data)
        /\ a.payload = b.payload

\* C21: createSessionKey calls that follow one another on a gateway that
\* keeps its key (no delete in between) all return the same address, and the
\* record's sessionKey is that address once they have returned.
C21_CreateIdempotent ==
    \A c \in CallIds, d \in CallIds :
        (/\ calls[c].op = "create" /\ calls[c].pc = "returned"
         /\ calls[d].op = "create" /\ calls[d].pc = "returned")
            => (calls[c].ret = calls[d].ret /\ state.sessionKey = calls[d].ret)

\* C21 witness: the first call created the key, the second got the empty
\* sentinel, made the retrieval call and returned the same address.
C21_Witness ==
    /\ calls[1].op = "create" /\ calls[1].pc = "returned"
    /\ "retrieve" \notin calls[1].issued
    /\ calls[2].op = "create" /\ calls[2].pc = "returned"
    /\ "retrieve" \in calls[2].issued
    /\ calls[2].ret = KeyA
    /\ state.sessionKey = KeyA

\* The number an amount stands for: its digits before the point without
\* leading zeros, its digits after the point without trailing zeros.
NumericValue(a) ==
    [int |-> StripLeadingZeros(a.whole), frac |-> StripTrailingZeros(a.fraction)]

\* C22: for every amount with at most 18 digits after the point,
\* formatEther(parseEther(amount)) is the number the amount stands for;
\* parseEther("0") is 0 and formatEther(0) is 0.
C22_EtherRoundTrip ==
    /\ \A x \in converted : x.eth = NumericValue(x.amount)
    /\ ParseEther(<<"0">>) = <<"0">>
    /\ FormatEther(<<"0">>) = [int |-> <<>>, frac |-> <<>>]

\* C22 witness: an amount of one wei and an amount with a whole part and 18
\* digits after the point went through both conversions.
C22_Witness ==
    /\ \E x \in converted :
          /\ x.wei = <<"1">>
          /\ x.eth = [int |-> <<>>, frac |-> Rep("0", Decimals - 1) \o <<"1">>]
    /\ \E x \in converted :
          /\ x.amount.whole = <<"1", "0">>
          /\ Len(x.amount.fraction) = Decimals
          /\ Len(x.wei) = Decimals + 2
          /\ x.eth.int = <<"1", "0">>

\* C23: fundSessionKey returns (the hash, with isLoading = false merged) only
\* in the step in which a receipt query of the call is answered with a
\* receipt, and when the provider has the receipt at some poll, a call that
\* has sent the funding transaction comes to its end.
C23_FundReturnsOnReceipt ==
    /\ [][\A c \in CallIds :
            (calls[c].op = "fund" /\ calls[c].pc # "returned" /\ calls'[c].pc = "returned")
               => (/\ calls[c].pc = "receipt"
                   /\ "eth_getTransactionReceipt" \in calls[c].issued
                   /\ FundReceipt(c, TRUE)
                   /\ calls'[c].ret = <<"t", "x">>
                   /\ ~state'.isLoading)]_vars
    /\ \A c \in CallIds :
          (calls[c].op = "fund" /\ calls[c].pc \in {"sendTx", "receipt", "sleep"})
             ~> (calls[c].pc \in {"returned", "failed", "observed"})

\* C23 witness: one fundSessionKey has returned the hash after its receipt
\* query, another sleeps between two polls.
C23_Witness ==
    /\ calls[1].op = "fund" /\ calls[1].pc = "returned"
    /\ calls[1].ret = <<"t", "x">>
    /\ "eth_getTransactionReceipt" \in calls[1].issued
    /\ calls[2].op = "fund" /\ calls[2].pc = "sleep"
    /\ ~state.isLoading

\* C24: at any time at most one listener pair of this library is attached,
\* over all providers (it is the pair providerCleanup removes), so an event a
\* provider emits runs one handler and makes one update.
C24_OneListenerPair ==
    /\ [](\A p \in Providers :
            attached[p] = IF p = providerCleanup THEN 1 ELSE 0)
    /\ [][\A p \in Providers, ev \in Events :
            ProviderEvent(p, ev)
               => (/\ attached[p] = 1
                   /\ state' = MergeState(state, EventUpdates(ev))
                   /\ waiters' = waiters)]_vars

\* C24 witness: createSessionKey was called twice, the second time with
\* provider p2, which alone has the pair, and an event of p2 has been handled.
C24_Witness ==
    /\ calls[1].op = "create" /\ calls[2].op = "create"
    /\ attached = [p \in Providers |-> IF p = "p2" THEN 1 ELSE 0]
    /\ providerCleanup = "p2"
    /\ state.error = "Chain changed"
    /\ lastWriter = 0

\* The fields of the record that are not persisted.
Volatile == Fields \ {"sessionKey", "isActive"}

\* C25: with a storage whose operations succeed, whenever no updateState is
\* in progress the blob, when there is one, parses to exactly the members
\* sessionKey and isActive with the values of the record; and an updateState
\* that names neither field (made at once, deferred, or woken) leaves the
\* storage as it is.
C25_PersistedMatchesRecord ==
    /\ []((~isUpdating /\ storage # NoBlob)
            => JsonMembers(storage[1], 2, {})
                 = {<<SessionKeyName, state.sessionKey>>, <<IsActiveName, state.isActive>>})
    /\ [][\A f \in Volatile : \A v \in FieldValues(f) :
            (StoreUpdate(f, v) \/ SubscriberUpdates(f, v)) => storage' = storage]_vars
    /\ [][(WakeWaiter /\ DOMAIN Head(waiters).updates \subseteq Volatile)
            => storage' = storage]_vars

\* C25 witness: after a page load, with a key and isActive stored and a
\* balance merged since, the blob still matches the record.
C25_Witness ==
    /\ ~isUpdating
    /\ restarts = 1
    /\ storage = <<JsonStringify([sessionKey |-> KeyB, isActive |-> TRUE])>>
    /\ state.sessionKey = KeyB /\ state.isActive
    /\ state.balance # NoBalance

\* sendTransaction with every combination of optional parameters, after a
\* createSessionKey that gave the store its key.
TxParams ==
    [nonce : {<<>>, <<0>>, <<1>>}, maxFeePerGas : {<<>>, <<"0", "x", "2">>},
     maxPriorityFeePerGas : {<<>>, <<"0", "x", "1">>},
     gasLimit : {<<>>, <<0>>, <<21000>>}]

NextSend ==
    \/ \E c \in CallIds : StartOp(c, "create", "p1", NoTx)
    \/ \E c \in CallIds, tx \in TxParams : StartOp(c, "send", "p1", tx)
    \/ EndUpdate
    \/ \E c \in CallIds, r \in ChainIdResponses : ChainIdResponse(c, r)
    \/ \E c \in CallIds, rej \in Rejections : RequestRejected(c, rej)
    \/ \E c \in CallIds, r \in StorageResponses : CreateResponse(c, r)
    \/ \E c \in CallIds, r \in StorageResponses : RetrieveResponse(c, r)
    \/ \E c \in CallIds : TxQueryResponse(c)
    \/ \E c \in CallIds : FeeHistoryFallback(c)
    \/ \E c \in CallIds : TxExecuted(c)
    \/ \E c \in CallIds : Observe(c)

SpecSend == Init /\ [][NextSend]_vars

\* C27: a sendTransaction whose caller gave a nonce (0 included) issues no
\* transaction-count query, one whose caller gave a gasLimit issues no
\* gas-estimate query, one whose caller gave both fees issues no fee-history
\* query and takes its fees from the caller, and any other computes its fees.
C27_CallerParamsWin ==
    \A c \in CallIds :
        calls[c].op = "send" =>
            LET tx == calls[c].tx
                bothFees == tx.maxFeePerGas # <<>> /\ tx.maxPriorityFeePerGas # <<>>
            IN /\ tx.nonce # <<>> => "eth_getTransactionCount" \notin calls[c].issued
               /\ tx.gasLimit # <<>> => "eth_estimateGas" \notin calls[c].issued
               /\ bothFees => /\ "eth_feeHistory" \notin calls[c].issued
                              /\ calls[c].fees \in {"unset", "caller"}
               /\ ~bothFees => calls[c].fees \in {"unset", "history", "fallback"}

\* The session key, the activity flag, the balance and the stored blob are
\* after the step what they were before it.
FrameKept ==
    /\ state'.sessionKey = state.sessionKey
    /\ state'.isActive = state.isActive
    /\ state'.balance = state.balance
    /\ storage' = storage

\* C28: every step of an operation other than its successful last one (its
\* start, its requests, its failure at the network check or at a provider
\* call, and the later merge of an update it made while the lock was held)
\* leaves sessionKey, isActive, balance and the stored blob as they were, and
\* so does every step of sendTransaction, its successful return included.
C28_FailureFrame ==
    [][restarts' = restarts =>
          /\ \A c \in CallIds :
                 calls'[c] # calls[c] =>
                     /\ calls'[c].pc # "returned" => FrameKept
                     /\ calls'[c].op = "send" => FrameKept
          /\ waiters' # waiters => FrameKept]_vars

C28_Witness ==
    /\ state.isActive
    /\ storage # NoBlob
    /\ state.error # NoError
    /\ \E c \in CallIds : calls[c].op = "delete" /\ calls[c].pc = "failed"

\* C29: the callbacks invoked by one updateState call are all given the same
\* record, the record of that call's merge; an updateState call made inside a
\* callback changes nothing of the record while the notification runs: it
\* joins the sleeping calls, and is merged by a later step with the lock free.
C29_SameRecordInRound ==
    /\ [](isUpdating =>
             \A i \in 1..Len(notify.invoked) : notify.invoked[i].seen = state)
    /\ [][/\ isUpdating => state' = state
          /\ (isUpdating /\ Len(notify'.invoked) > Len(notify.invoked)) =>
                 /\ isUpdating'
                 /\ \/ waiters' = waiters
                    \/ /\ Len(waiters') = Len(waiters) + 1
                       /\ SubSeq(waiters', 1, Len(waiters)) = waiters
          /\ Len(waiters') < Len(waiters) => ~isUpdating]_vars

C29_Witness ==
    /\ isUpdating
    /\ Len(notify.invoked) >= 2
    /\ waiters # <<>>
    /\ \E i \in 1..Len(waiters) : MergeState(state, waiters[i].updates) # state

\* The update lock under every subscriber behaviour: callbacks that observe,
\* throw, subscribe, unsubscribe, resubscribe and call updateState.
NextLock ==
    \/ \E f \in Fields : \E v \in FieldValues(f) : StoreUpdate(f, v)
    \/ \E f \in Fields : \E v \in FieldValues(f) : SubscriberUpdates(f, v)
    \/ SubscriberObserves
    \/ SubscriberThrows
    \/ \E s \in NotifySubscribers : SubscriberSubscribes(s)
    \/ \E s \in NotifySubscribers : SubscriberUnsubscribes(s)
    \/ SubscriberResubscribes
    \/ EndUpdate
    \/ WakeWaiter
    \/ \E s \in NotifySubscribers : Subscribe(s)
    \/ \E s \in NotifySubscribers : Unsubscribe(s)

\* The callback whose turn it is runs and returns, whatever it does.
CallbackStep ==
    \/ \E f \in Fields : \E v \in FieldValues(f) : SubscriberUpdates(f, v)
    \/ SubscriberObserves
    \/ SubscriberThrows
    \/ \E s \in NotifySubscribers : SubscriberSubscribes(s)
    \/ \E s \in NotifySubscribers : SubscriberUnsubscribes(s)
    \/ SubscriberResubscribes

\* The forEach goes on to the next callback, the finally block runs when the
\* forEach is over, and the 50 ms timers fire.
LockFairness ==
    /\ WF_vars(CallbackStep)
    /\ WF_vars(EndUpdate)
    /\ WF_vars(WakeWaiter)

SpecLock == Init /\ [][NextLock]_vars /\ LockFairness

\* C30: every updateState call completes and its partial is merged once,
\* whatever the subscribers do: the lock, once taken, is released, every
\* sleeping call leaves the wait loop, and it leaves it by its own merge.
C30_UpdatesComplete ==
    /\ isUpdating ~> ~isUpdating
    /\ \A n \in 1..5 : (Len(waiters) = n) ~> (Len(waiters) < n)
    /\ [][Len(waiters') < Len(waiters) =>
             /\ waiters' = Tail(waiters)
             /\ state' = MergeState(state, Head(waiters).updates)]_vars

\* The minimal big-endian bytes of a number: none for zero.
MinimalBytes(n) == IF n = 0 THEN <<>> ELSE LengthBytes(n)

RECURSIVE RlpItems(_, _)
RlpItems(items, i) ==
    IF i > Len(items) THEN <<>> ELSE RlpBytes(items[i]) \o RlpItems(items, i + 1)

\* The payload of the transaction whose numeric fields are encoded minimally.
CanonicalPayload(p) ==
    LET body == RlpItems(<<MinimalBytes(p.chainId), MinimalBytes(p.nonce),
                           MinimalBytes(p.maxPriorityFeePerGas),
                           MinimalBytes(p.maxFeePerGas), MinimalBytes(p.gasLimit),
                           RlpInput(ToLowerCase(p.to)),
                           MinimalBytes(IF p.value = <<>> THEN 0
                                        ELSE ParseInt16(ToLowerCase(p.value))),
                           RlpInput(ToLowerCase(p.data))>>, 1)
                    \o <<192, 128, 128, 128>>
    IN Base64(<<2>> \o RlpLength(Len(body), 192) \o body)

\* C26: in every submitted payload chainId, nonce, both fees, gasLimit and
\* value are their minimal big-endian bytes, and the empty byte string when
\* they are zero (nonce 0, no value given).
C26_MinimalIntegers ==
    \A x \in sent : x.payload = CanonicalPayload(x.params)

\* The record shows a provider event that fired while call c was in flight:
\* the entry update of c has put error = null, so an event's error in the
\* record was put there after c started.
EventSince(c) ==
    /\ InFlight(c)
    /\ \A i \in 1..Len(waiters) : waiters[i].owner # c
    /\ state.error \in {EventError(ev) : ev \in Events}
    /\ ~state.isActive

\* C31: after a disconnect or chainChanged event isActive stays false until
\* an activateSessionKey call started after the event succeeds: no step of
\* an activateSessionKey call that was in flight when the event fired makes
\* isActive true.
C31_StaleActivateKeepsInactive ==
    [][\A c \in CallIds :
          (calls[c].op = "activate" /\ EventSince(c) /\ calls'[c] # calls[c]) =>
              ~state'.isActive]_vars

\* C32: a fundSessionKey call sends eth_sendTransaction once: the one step
\* that sends it follows the network check of a call that has not sent it,
\* and a call that has sent it never awaits its answer again, whatever the
\* receipt polls answer and when a receipt query is rejected.
C32_TransferSubmittedOnce ==
    [][\A c \in CallIds :
          (calls'[c].op = "fund" /\ calls'[c] # calls[c]) =>
              /\ calls'[c].pc = "sendTx" =>
                     /\ calls[c].pc = "chain"
                     /\ "eth_sendTransaction" \notin calls[c].issued
              /\ "eth_sendTransaction" \in calls[c].issued =>
                     /\ calls'[c].pc \notin {"chain", "sendTx"}
                     /\ calls'[c].issued \subseteq
                            calls[c].issued \cup {"eth_getTransactionReceipt"}]_vars

C32_Witness ==
    \E c \in CallIds :
        /\ calls[c].op = "fund"
        /\ calls[c].pc = "failed"
        /\ calls[c].err = ProviderError
        /\ "eth_getTransactionReceipt" \in calls[c].issued

=============================================================================
